---- MODULE Spec2Model ----
(***************************************************************************)
(* WindRenderer.render of the e-paper weather station, in its four backup  *)
(* versions (src/backup/wind_*/wind_renderer.py), and the greedy line      *)
(* wrapping routine wrap2_ellips of the final version.                     *)
(*                                                                         *)
(* A Python string is a sequence of one-character strings; the ellipsis    *)
(* character U+2026 is the single element "...".  Text measurement         *)
(* (draw.textbbox) is a font metric: every character is cw pixels wide,    *)
(* the ellipsis ew pixels, a non-empty text h pixels high.  Wind speed is  *)
(* kept in tenths of m/s.                                                  *)
(***************************************************************************)
EXTENDS Integers, Sequences, FiniteSets, TLC

VARIABLES
    mode,       \* "render": a render call is modelled; "wrap": a wrap2_ellips call
    pc,         \* "call": the call is pending; "done": it has finished
    version,    \* which of the four files' render is called
    args,       \* render's arguments x, y, width, height, weather_data
    env,        \* the collaborators' answers during this call
    calls,      \* the draw calls render issued, in order
    ret,        \* render's return value
    outcome,    \* "returned" or "raised" (an exception left render)
    wreq,       \* wrap2_ellips's arguments text, font, max_w, max_lines
    wresult     \* wrap2_ellips's returned list of lines

vars == <<mode, pc, version, args, env, calls, ret, outcome, wreq, wresult>>

----------------------------------------------------------------------------
(* Bounds of the model *)

MaxLen == 7         \* longest text given to wrap2_ellips
MaxW == 6           \* largest max_w given to wrap2_ellips
MaxLines == 3       \* largest max_lines given to wrap2_ellips
MaxFail == 3        \* an exception is raised after at most MaxFail - 1 draw calls

----------------------------------------------------------------------------
(* Python string operations *)

ELLIPSIS == "..."
SPACE == " "

Min(a, b) == IF a <= b THEN a ELSE b

\* str.rstrip()
RECURSIVE RStrip(_)
RStrip(s) ==
    IF s = <<>> THEN s
    ELSE IF s[Len(s)] = SPACE THEN RStrip(SubSeq(s, 1, Len(s) - 1)) ELSE s

\* str.lstrip()
RECURSIVE LStrip(_)
LStrip(s) ==
    IF s = <<>> THEN s
    ELSE IF s[1] = SPACE THEN LStrip(Tail(s)) ELSE s

\* str.strip()
Strip(s) == LStrip(RStrip(s))

\* str.split(): the maximal runs of non-whitespace characters
RECURSIVE SplitFrom(_, _, _)
SplitFrom(s, cur, acc) ==
    IF s = <<>> THEN (IF cur = <<>> THEN acc ELSE Append(acc, cur))
    ELSE IF s[1] = SPACE
         THEN SplitFrom(Tail(s), <<>>, IF cur = <<>> THEN acc ELSE Append(acc, cur))
         ELSE SplitFrom(Tail(s), Append(cur, s[1]), acc)

Split(s) == SplitFrom(s, <<>>, <<>>)

\* " ".join(words)
RECURSIVE Join(_)
Join(words) ==
    IF words = <<>> THEN <<>>
    ELSE IF Len(words) = 1 THEN words[1]
    ELSE words[1] \o <<SPACE>> \o Join(Tail(words))

----------------------------------------------------------------------------
(* Text measurement *)

CharWidth(c, font) == IF c = ELLIPSIS THEN font.ew ELSE font.cw

\* draw.textbbox((0, 0), text, font=font) as (left, top, right, bottom)
RECURSIVE BBoxRight(_, _)
BBoxRight(text, font) ==
    IF text = <<>> THEN 0 ELSE CharWidth(text[1], font) + BBoxRight(Tail(text), font)

textbbox(text, font) ==
    <<0, 0, BBoxRight(text, font), IF text = <<>> THEN 0 ELSE font.h>>

text_width(text, font) == textbbox(text, font)[3] - textbbox(text, font)[1]

text_height(text, font) == textbbox(text, font)[4] - textbbox(text, font)[2]

----------------------------------------------------------------------------
(* wrap2_ellips *)

\* the loop "while text_width(rest + ellipsis) > max_w and len(rest) > 3"
RECURSIVE EllipsizeRest(_, _, _)
EllipsizeRest(rest, font, max_w) ==
    IF text_width(Append(rest, ELLIPSIS), font) > max_w /\ Len(rest) > 3
    THEN EllipsizeRest(RStrip(SubSeq(rest, 1, Len(rest) - 1)), font, max_w)
    ELSE rest

\* the last line: the remaining words, shortened, with the ellipsis if shortened
LastLine(rest_words, font, max_w) ==
    LET full == Join(rest_words)
        rest == EllipsizeRest(full, font, max_w)
    IN  rest \o (IF Len(rest) < Len(full) THEN <<ELLIPSIS>> ELSE <<>>)

\* a wrong test for the last line: one line too late
AtLastLineMut(lines, max_lines) == Len(lines) = max_lines

\* "if len(lines) == max_lines - 1": the next line is the last one allowed
AtLastLine(lines, max_lines) == Len(lines) = max_lines - 1

\* the for loop over enumerate(words), from index i with the locals lines and cur
RECURSIVE WrapLoop(_, _, _, _, _, _, _)
WrapLoop(words, i, lines, cur, font, max_w, max_lines) ==
    IF i > Len(words)
    THEN LET all == IF cur # <<>> THEN Append(lines, cur) ELSE lines
         IN  SubSeq(all, 1, Min(max_lines, Len(all)))
    ELSE LET w == words[i]
             test == Strip(cur \o <<SPACE>> \o w)
         IN  IF text_width(test, font) <= max_w
             THEN WrapLoop(words, i + 1, lines, test, font, max_w, max_lines)
             ELSE LET lines2 == IF cur # <<>> THEN Append(lines, cur) ELSE lines
                  IN  IF AtLastLine(lines2, max_lines)
                      THEN Append(lines2,
                                  LastLine(SubSeq(words, i, Len(words)), font, max_w))
                      ELSE WrapLoop(words, i + 1, lines2, w, font, max_w, max_lines)

wrap2_ellips(text, font, max_w, max_lines) ==
    LET words == Split(text)
    IN  IF words = <<>> THEN <<text>>
        ELSE WrapLoop(words, 1, <<>>, <<>>, font, max_w, max_lines)

----------------------------------------------------------------------------
(* Collaborators of render: base class, icon manager, fonts *)

NoFont == [cw |-> 0, ew |-> 0, h |-> 0]
NoIcon == [kind |-> "none", code |-> "", size |-> <<0, 0>>]

\* ModuleRenderer.safe_get_value(data, key, default, type): the value under key,
\* the default when the key is absent
safe_get_value(data, key, default) ==
    IF key \in DOMAIN data THEN data[key] ELSE default

\* ModuleRenderer.get_text_bounds(text, font): (width, height)
get_text_bounds(text, font) == <<text_width(text, font), text_height(text, font)>>

\* dict.get(key, default) on self.fonts
FontsGet(fonts, key, default) ==
    IF key \in DOMAIN fonts THEN fonts[key] ELSE default

\* icon_manager.get_system_icon(name, size): the icon, or None
get_system_icon(e, name, size) ==
    IF e.sysIcon THEN [kind |-> "system", code |-> name, size |-> size] ELSE NoIcon

\* icon_manager.get_wind_icon(code, size): the arrow stored under code, or None
get_wind_icon(e, code, size) ==
    IF code \in e.windIcons THEN [kind |-> "wind", code |-> code, size |-> size]
    ELSE NoIcon

\* str.upper() and str.lower() on the cardinal codes of the model
Upper(c) == CASE c = "n" -> "N" [] c = "sw" -> "SW" [] c = "Sw" -> "SW" [] OTHER -> c
Lower(c) == CASE c = "N" -> "n" [] c = "SW" -> "sw" [] c = "Sw" -> "sw" [] OTHER -> c

\* f"{wind_speed:.1f} m/s" of a speed given in tenths
DigitChar(d) == <<"0", "1", "2", "3", "4", "5", "6", "7", "8", "9">>[d + 1]

RECURSIVE Digits(_)
Digits(n) == IF n < 10 THEN <<DigitChar(n)>>
             ELSE Append(Digits(n \div 10), DigitChar(n % 10))

FormatMs(tenths) ==
    Digits(tenths \div 10) \o <<".", DigitChar(tenths % 10)>> \o <<" ", "m", "/", "s">>

----------------------------------------------------------------------------
(* Draw calls *)

Rectangle(site, x0, y0, x1, y1) ==
    [op |-> "draw.rectangle", site |-> site, x |-> x0, y |-> y0, x2 |-> x1, y2 |-> y1]

Text(site, x, y, text, font) ==
    [op |-> "draw_text_with_fallback", site |-> site, x |-> x, y |-> y,
     text |-> text, font |-> font]

RawText(site, x, y, text, font) ==
    [op |-> "draw.text", site |-> site, x |-> x, y |-> y, text |-> text, font |-> font]

Paste(site, icon, x, y) ==
    [op |-> "paste_icon_on_canvas", site |-> site, icon |-> icon, x |-> x, y |-> y]

FALLBACK_MESSAGE == "Wind-data ej tillganglig"   \* the a-umlaut written as a

Fallback(x, y, width, height, message) ==
    [op |-> "render_fallback_content", site |-> "fallback", x |-> x, y |-> y,
     width |-> width, height |-> height, message |-> message]

Opt(cond, call) == IF cond THEN <<call>> ELSE <<>>

----------------------------------------------------------------------------
(* try / except of render, the same in all four files *)

\* an except branch that swallows the exception and draws no fallback
ExceptBranchMut(made, a, e) ==
    [calls |-> made, ret |-> FALSE, outcome |-> "returned"]

\* the except branch: the draw calls made so far stay, the fallback is called
\* once and its result returned
ExceptBranch(made, a, e) ==
    [calls |-> Append(made, Fallback(a.x, a.y, a.width, a.height, FALLBACK_MESSAGE)),
     ret |-> e.fallbackRet, outcome |-> "returned"]

\* body is what the try block draws when nothing raises; with e.failAt = k > 0 a
\* statement raises after k - 1 draw calls (after the last one when there are fewer)
TryExcept(body, a, e) ==
    IF e.failAt = 0
    THEN [calls |-> body, ret |-> TRUE, outcome |-> "returned"]
    ELSE ExceptBranch(SubSeq(body, 1, Min(e.failAt - 1, Len(body))), a, e)

\* a wrong default for a missing wind speed
GetWindSpeedMut(weather_data) == safe_get_value(weather_data, "wind_speed", 10)

\* wind_speed = self.safe_get_value(weather_data, 'wind_speed', 0.0, float)
GetWindSpeed(weather_data) == safe_get_value(weather_data, "wind_speed", 0)

\* wind_direction = self.safe_get_value(weather_data, 'wind_direction', 0.0, float)
GetWindDirection(weather_data) == safe_get_value(weather_data, "wind_direction", 0)

----------------------------------------------------------------------------
(* wind_clean_final_20250817_180020: the final version *)

PADDING == 20
ROW_GAP_PRIMARY == 36
RIGHT_ICON_W == 32
RIGHT_ICON_H == 32
RIGHT_ICON_INSET == 24
CARDINAL_ICON_W == 32
CARDINAL_ICON_H == 32
CARDINAL_GAP == 8
BOTTOM_ZONE_INSET == 20
MAX_DESC_WIDTH == 172
MAX_DESC_LINES == 2
LINE_GAP == 6

RIGHT_COLUMN_W == RIGHT_ICON_W + RIGHT_ICON_INSET
PRIMARY_MAX_W(width) == width - PADDING - RIGHT_COLUMN_W - PADDING

\* a frame drawn on the module's border instead of 2 px inside it
FrameRectMut(x, y, width, height) ==
    Rectangle("frame", x, y, x + width, y + height)

\* the module frame
FrameRect(x, y, width, height) ==
    Rectangle("frame", x + 2, y + 2, x + width - 2, y + height - 2)

\* fonts of the final version
MsFont(fonts) == FontsGet(fonts, "large_main", FontsGet(fonts, "medium_main", NoFont))
DescFont(fonts) == FontsGet(fonts, "small_main", FontsGet(fonts, "small_desc", NoFont))
LabelFont(fonts) == FontsGet(fonts, "small_main", DescFont(fonts))

\* desc_y = ms_y + ms_height + ROW_GAP_PRIMARY
DescY(y, ms_text, ms_font) ==
    LET ms_bbox == textbbox(ms_text, ms_font)
        ms_y == y + PADDING
        ms_height == ms_bbox[4] - ms_bbox[2]
    IN  ms_y + ms_height + ROW_GAP_PRIMARY

\* the description lines, drawn under the m/s text
RECURSIVE DescDraws(_, _, _, _, _)
DescDraws(desc_lines, i, desc_x, desc_y, desc_font) ==
    IF i >= Len(desc_lines) THEN <<>>
    ELSE LET line == desc_lines[i + 1]
             line_y == desc_y + i * (text_height(line, desc_font) + LINE_GAP)
         IN  <<Text("desc", desc_x, line_y, line, desc_font)>>
                 \o DescDraws(desc_lines, i + 1, desc_x, desc_y, desc_font)

\* icon placement without the collision guard
IconYMut(x, y, width, ms_x, ms_text, ms_font, desc_y) == y + PADDING \div 2

\* icon_y of the illustration icon, with the collision guard
IconY(x, y, width, ms_x, ms_text, ms_font, desc_y) ==
    LET ms_right_edge == ms_x + text_width(ms_text, ms_font)
    IN  IF ms_right_edge + 12 > x + PADDING + PRIMARY_MAX_W(width)
        THEN desc_y - 4
        ELSE y + PADDING \div 2

\* the first icon the alternative codes give
RECURSIVE FirstAltIcon(_, _, _)
FirstAltIcon(e, alt_codes, size) ==
    IF alt_codes = <<>> THEN NoIcon
    ELSE LET alt_icon == get_wind_icon(e, Head(alt_codes), size)
         IN  IF alt_icon # NoIcon THEN alt_icon
             ELSE FirstAltIcon(e, Tail(alt_codes), size)

\* cardinal_icon: the icon of cardinal_code, else of the first alternative code
CardinalIcon(e, cardinal_code, size) ==
    LET cardinal_icon == get_wind_icon(e, cardinal_code, size)
    IN  IF cardinal_icon # NoIcon THEN cardinal_icon
        ELSE FirstAltIcon(e, <<"n", "N", Upper(cardinal_code), Lower(cardinal_code)>>,
                          size)

\* the draw calls of the try block when nothing raises
Body_clean_final(a, e) ==
    LET x == a.x
        y == a.y
        width == a.width
        height == a.height
        wind_speed == GetWindSpeed(a.weather_data)
        wind_direction == GetWindDirection(a.weather_data)
        speed_description == e.desc
        direction_short == e.dirInfo[1]
        cardinal_code == e.dirInfo[2]
        left_x == x + PADDING
        right_icon_x == x + width - RIGHT_ICON_INSET - RIGHT_ICON_W
        ms_text == FormatMs(wind_speed)
        ms_font == MsFont(e.fonts)
        ms_x == left_x
        ms_y == y + PADDING
        desc_font == DescFont(e.fonts)
        desc_lines == wrap2_ellips(speed_description, desc_font,
                                   MAX_DESC_WIDTH, MAX_DESC_LINES)
        desc_x == left_x
        desc_y == DescY(y, ms_text, ms_font)
        wind_icon == get_system_icon(e, "strong-wind", <<RIGHT_ICON_W, RIGHT_ICON_H>>)
        icon_y == IconY(x, y, width, ms_x, ms_text, ms_font, desc_y)
        cardinal_icon == CardinalIcon(e, cardinal_code,
                                      <<CARDINAL_ICON_W, CARDINAL_ICON_H>>)
        label_font == LabelFont(e.fonts)
        label_w == text_width(direction_short, label_font)
        icon_w == IF cardinal_icon # NoIcon THEN CARDINAL_ICON_W ELSE 0
        gap == IF cardinal_icon # NoIcon THEN CARDINAL_GAP ELSE 0
        combined_w == icon_w + gap + label_w
        base_y == y + height - BOTTOM_ZONE_INSET - CARDINAL_ICON_H
        start_x == x + (width - combined_w) \div 2
        cursor_x == IF cardinal_icon # NoIcon THEN start_x + CARDINAL_ICON_W + gap
                    ELSE start_x + 20
        label_y == base_y
                   + (CARDINAL_ICON_H - text_height(direction_short, label_font)) \div 2
    IN  <<FrameRect(x, y, width, height)>>
        \o <<Text("ms", ms_x, ms_y, ms_text, ms_font)>>
        \o DescDraws(desc_lines, 0, desc_x, desc_y, desc_font)
        \o Opt(wind_icon # NoIcon, Paste("wind_icon", wind_icon, right_icon_x, icon_y))
        \o <<IF cardinal_icon # NoIcon
             THEN Paste("cardinal_icon", cardinal_icon, start_x, base_y)
             ELSE RawText("arrow", start_x, base_y, <<"->">>, label_font)>>
        \o <<Text("label", cursor_x, label_y, direction_short, label_font)>>

----------------------------------------------------------------------------
(* wind_layout_fix_20250815_175437: centred layout, no frame *)

Body_layout_fix_0815(a, e) ==
    LET x == a.x
        y == a.y
        width == a.width
        wind_speed == GetWindSpeed(a.weather_data)
        speed_description == e.desc
        direction_short == e.dirInfo[1]
        cardinal_code == e.dirInfo[2]
        general_wind_icon == get_system_icon(e, "strong-wind", <<48, 48>>)
        icon_center_x == x + (width \div 2) - 24
        ms_text == FormatMs(wind_speed)
        ms_center_x == x + (width \div 2)
        hero_font == FontsGet(e.fonts, "hero_temp", FontsGet(e.fonts, "small_main", NoFont))
        desc_font == FontsGet(e.fonts, "medium_desc", FontsGet(e.fonts, "small_desc", NoFont))
        desc_center_x == x + (width \div 2)
        cardinal_icon == get_wind_icon(e, cardinal_code, <<32, 32>>)
        cardinal_center_x == x + (width \div 2) - 16
        direction_x == cardinal_center_x + 40
    IN  Opt(general_wind_icon # NoIcon,
            Paste("wind_icon", general_wind_icon, icon_center_x, y + 15))
        \o <<Text("ms", ms_center_x - 50, y + 75, ms_text, hero_font)>>
        \o <<Text("desc", desc_center_x - 40, y + 115, speed_description, desc_font)>>
        \o Opt(cardinal_icon # NoIcon,
               Paste("cardinal_icon", cardinal_icon, cardinal_center_x, y + 150))
        \o <<Text("label", direction_x, y + 155, direction_short, desc_font)>>

----------------------------------------------------------------------------
(* wind_layout_fix_20250817_164437: horizontal layout, no frame *)

Body_layout_fix_0817(a, e) ==
    LET x == a.x
        y == a.y
        height == a.height
        wind_speed == GetWindSpeed(a.weather_data)
        speed_description == e.desc
        direction_short == e.dirInfo[1]
        cardinal_code == e.dirInfo[2]
        general_wind_icon == get_system_icon(e, "strong-wind", <<48, 48>>)
        icon_x == x + 20
        icon_y == y + 25
        ms_text == FormatMs(wind_speed)
        ms_x == icon_x + 60
        ms_y == y + 35
        hero_font == FontsGet(e.fonts, "hero_temp", FontsGet(e.fonts, "small_main", NoFont))
        desc_font == FontsGet(e.fonts, "medium_desc", FontsGet(e.fonts, "small_desc", NoFont))
        desc_x == ms_x
        desc_y == ms_y + 50
        cardinal_icon == get_wind_icon(e, cardinal_code, <<32, 32>>)
        cardinal_x == x + 30
        cardinal_y == y + height - 50
        direction_x == cardinal_x + 40
        direction_y == cardinal_y + 5
    IN  Opt(general_wind_icon # NoIcon,
            Paste("wind_icon", general_wind_icon, icon_x, icon_y))
        \o <<Text("ms", ms_x, ms_y, ms_text, hero_font)>>
        \o <<Text("desc", desc_x, desc_y, speed_description, desc_font)>>
        \o Opt(cardinal_icon # NoIcon,
               Paste("cardinal_icon", cardinal_icon, cardinal_x, cardinal_y))
        \o <<Text("label", direction_x, direction_y, direction_short, desc_font)>>

----------------------------------------------------------------------------
(* wind_text_bounds_fix_20250817_165040: symmetric layout with the frame *)

Body_text_bounds_fix(a, e) ==
    LET x == a.x
        y == a.y
        width == a.width
        height == a.height
        wind_speed == GetWindSpeed(a.weather_data)
        speed_description == e.desc
        direction_short == e.dirInfo[1]
        cardinal_code == e.dirInfo[2]
        center_x == x + width \div 2
        general_wind_icon == get_system_icon(e, "strong-wind", <<40, 40>>)
        icon_x == center_x - 20
        icon_y == y + 25
        ms_text == FormatMs(wind_speed)
        ms_font == FontsGet(e.fonts, "large_main", FontsGet(e.fonts, "medium_main", NoFont))
        text_bbox == get_text_bounds(ms_text, ms_font)
        ms_x == center_x - text_bbox[1] \div 2
        ms_y == y + 80
        desc_font == FontsGet(e.fonts, "medium_main", FontsGet(e.fonts, "small_main", NoFont))
        desc_bbox == get_text_bounds(speed_description, desc_font)
        desc_x == center_x - desc_bbox[1] \div 2
        desc_y == ms_y + 40
        cardinal_icon == get_wind_icon(e, cardinal_code, <<24, 24>>)
        direction_y_base == y + height - 45
        dir_font == FontsGet(e.fonts, "small_main", FontsGet(e.fonts, "small_desc", NoFont))
        direction_text_bbox == get_text_bounds(direction_short, dir_font)
        combined_width == 24 + 8 + direction_text_bbox[1]
        combined_x == center_x - combined_width \div 2
        direction_x == combined_x + 24 + 8
        direction_y == direction_y_base + 2
    IN  <<Rectangle("frame", x + 2, y + 2, x + width - 2, y + height - 2)>>
        \o Opt(general_wind_icon # NoIcon,
               Paste("wind_icon", general_wind_icon, icon_x, icon_y))
        \o <<Text("ms", ms_x, ms_y, ms_text, ms_font)>>
        \o <<Text("desc", desc_x, desc_y, speed_description, desc_font)>>
        \o Opt(cardinal_icon # NoIcon,
               Paste("cardinal_icon", cardinal_icon, combined_x, direction_y_base))
        \o <<Text("label", direction_x, direction_y, direction_short, dir_font)>>

----------------------------------------------------------------------------
(* The calls the model makes *)

Versions == {"layout_fix_0815", "layout_fix_0817", "text_bounds_fix", "clean_final"}

\* (x, y, width, height) of the module on the canvas
Regions == {<<0, 0, 240, 200>>, <<240, 200, 120, 100>>, <<10, 0, 480, 300>>}

\* weather_data, with the wind fields present or missing (speed in tenths)
WeatherData == {<<>>,
                [wind_speed |-> 48],
                [wind_direction |-> 225],
                [wind_speed |-> 123, wind_direction |-> 225]}

\* answers of icon_manager.get_wind_description_swedish
Descriptions == {<<>>,
                 <<"S", "t", "o", "r", "m", "b", "y", "a", "r">>,
                 <<"M", "a", "t", "t", "l", "i", "g", " ", "v", "i", "n", "d">>,
                 <<"M", "y", "c", "k", "e", "t", " ", "h", "a", "r", "d", " ",
                   "v", "i", "n", "d">>}

\* answers of icon_manager.get_wind_direction_info: (direction_short, cardinal_code)
DirectionInfos == {<< <<"N">>, "n" >>, << <<"S", "V">>, "sw" >>, << <<"S", "V">>, "Sw" >>}

\* the codes icon_manager.get_wind_icon has an arrow for
WindIconSets == {{}, {"n"}, {"sw"}, {"SW"}, {"N", "sw"}}

Font(cw, h) == [cw |-> cw, ew |-> cw, h |-> h]

\* self.fonts
FontDicts ==
    { [hero_temp |-> Font(30, 48), large_main |-> Font(20, 36),
       medium_main |-> Font(16, 24), medium_desc |-> Font(14, 20),
       small_main |-> Font(12, 18), small_desc |-> Font(10, 16)],
      [medium_main |-> Font(10, 24), small_main |-> Font(8, 18),
       small_desc |-> Font(7, 16)],
      [hero_temp |-> Font(40, 60), large_main |-> Font(30, 48),
       medium_main |-> Font(26, 30), medium_desc |-> Font(24, 28),
       small_main |-> Font(24, 26), small_desc |-> Font(20, 24)] }

RenderArgs ==
    { [x |-> r[1], y |-> r[2], width |-> r[3], height |-> r[4], weather_data |-> wd] :
        r \in Regions, wd \in WeatherData }

RenderEnvs ==
    [desc : Descriptions, dirInfo : DirectionInfos, windIcons : WindIconSets,
     sysIcon : BOOLEAN, fonts : FontDicts, failAt : 0..MaxFail, fallbackRet : BOOLEAN]

Alphabet == {"a", SPACE}
Texts == UNION { [1..n -> Alphabet] : n \in 0..MaxLen }
WrapFonts == { [cw |-> 1, ew |-> 1, h |-> 1], [cw |-> 2, ew |-> 1, h |-> 1] }

WrapRequests ==
    [text : Texts, font : WrapFonts, max_w : 0..MaxW, max_lines : 1..MaxLines]

NoArgs == [x |-> 0, y |-> 0, width |-> 0, height |-> 0, weather_data |-> <<>>]
NoEnv == [desc |-> <<>>, dirInfo |-> << <<>>, "" >>, windIcons |-> {}, sysIcon |-> FALSE,
          fonts |-> <<>>, failAt |-> 0, fallbackRet |-> FALSE]
NoWrap == [text |-> <<>>, font |-> NoFont, max_w |-> 0, max_lines |-> 1]

InitRender ==
    /\ mode = "render"
    /\ version \in Versions
    /\ args \in RenderArgs
    /\ env \in RenderEnvs
    /\ wreq = NoWrap

InitWrap ==
    /\ mode = "wrap"
    /\ version = "none"
    /\ args = NoArgs
    /\ env = NoEnv
    /\ wreq \in WrapRequests

Init ==
    /\ InitRender \/ InitWrap
    /\ pc = "call"
    /\ calls = <<>>
    /\ ret = FALSE
    /\ outcome = "none"
    /\ wresult = <<>>

Finish(r) ==
    /\ calls' = r.calls
    /\ ret' = r.ret
    /\ outcome' = r.outcome
    /\ pc' = "done"
    /\ UNCHANGED <<mode, version, args, env, wreq, wresult>>

Render_layout_fix_0815 ==
    /\ mode = "render" /\ pc = "call" /\ version = "layout_fix_0815"
    /\ Finish(TryExcept(Body_layout_fix_0815(args, env), args, env))

Render_layout_fix_0817 ==
    /\ mode = "render" /\ pc = "call" /\ version = "layout_fix_0817"
    /\ Finish(TryExcept(Body_layout_fix_0817(args, env), args, env))

Render_text_bounds_fix ==
    /\ mode = "render" /\ pc = "call" /\ version = "text_bounds_fix"
    /\ Finish(TryExcept(Body_text_bounds_fix(args, env), args, env))

Render_clean_final ==
    /\ mode = "render" /\ pc = "call" /\ version = "clean_final"
    /\ Finish(TryExcept(Body_clean_final(args, env), args, env))

WrapCall ==
    /\ mode = "wrap" /\ pc = "call"
    /\ wresult' = wrap2_ellips(wreq.text, wreq.font, wreq.max_w, wreq.max_lines)
    /\ pc' = "done"
    /\ UNCHANGED <<mode, version, args, env, calls, ret, outcome, wreq>>

Next ==
    \/ Render_layout_fix_0815
    \/ Render_layout_fix_0817
    \/ Render_text_bounds_fix
    \/ Render_clean_final
    \/ WrapCall

Spec == Init /\ [][Next]_vars

----------------------------------------------------------------------------
(* Vocabulary of the properties *)

RenderDone == mode = "render" /\ pc = "done"
FinalDone == RenderDone /\ version = "clean_final"
WrapDone == mode = "wrap" /\ pc = "done"

\* the positions in calls of the draw calls made at a call site
At(site) == { i \in 1..Len(calls) : calls[i].site = site }

\* the positions in calls of the calls of an operation
Ops(op) == { i \in 1..Len(calls) : calls[i].op = op }

\* two rectangles (left, top, width, height) share a pixel
Intersect(ax, ay, aw, ah, bx, by, bw, bh) ==
    /\ ax < bx + bw /\ bx < ax + aw
    /\ ay < by + bh /\ by < ay + ah

\* a drawn text and a pasted icon share a pixel
TextHitsIcon(t, p) ==
    Intersect(t.x, t.y, text_width(t.text, t.font), text_height(t.text, t.font),
              p.x, p.y, p.icon.size[1], p.icon.size[2])

MissingWindField ==
    \/ "wind_speed" \notin DOMAIN args.weather_data
    \/ "wind_direction" \notin DOMAIN args.weather_data

\* the words can be laid out in order on at most two lines no wider than max_w
FitsOnTwoLines(words, font, max_w) ==
    \E k \in 1..Len(words) :
        /\ text_width(Join(SubSeq(words, 1, k)), font) <= max_w
        /\ \/ k = Len(words)
           \/ text_width(Join(SubSeq(words, k + 1, Len(words))), font) <= max_w

EndsWithEllipsis(line) == line # <<>> /\ line[Len(line)] = ELLIPSIS

----------------------------------------------------------------------------
(* C1 *)

\* C1: in all four versions, a render whose body does not raise returns True and
\* never calls render_fallback_content; a render whose body raises calls
\* render_fallback_content exactly once, as its last call, with the original
\* (x, y, width, height) and the message, and returns that call's result; no
\* exception leaves render.
C1_FallbackOnException ==
    RenderDone =>
        /\ outcome = "returned"
        /\ env.failAt = 0 =>
              /\ ret = TRUE
              /\ Ops("render_fallback_content") = {}
        /\ env.failAt # 0 =>
              /\ Ops("render_fallback_content") = {Len(calls)}
              /\ calls[Len(calls)] =
                    Fallback(args.x, args.y, args.width, args.height, FALLBACK_MESSAGE)
              /\ ret = env.fallbackRet

\* a raise after the frame was drawn, with the fallback returning False
C1_Witness ==
    /\ RenderDone
    /\ env.failAt = 2
    /\ env.fallbackRet = FALSE
    /\ Len(calls) = 2
    /\ calls[1].op = "draw.rectangle"
    /\ calls[2].op = "render_fallback_content"
    /\ ret = FALSE

----------------------------------------------------------------------------
(* C2 *)

\* C2: in the final version the m/s text never covers the illustration icon: when
\* both are drawn, the text's rectangle and the icon's rectangle do not intersect.
C2_MsNeverCoversIcon ==
    FinalDone =>
        \A i \in At("ms") : \A j \in At("wind_icon") :
            ~TextHitsIcon(calls[i], calls[j])

\* the guard has moved the icon below the m/s text
C2_Witness ==
    /\ FinalDone
    /\ env.failAt = 0
    /\ \E i \in At("ms") : \E j \in At("wind_icon") :
          /\ calls[j].y = DescY(args.y, calls[i].text, calls[i].font) - 4
          /\ calls[i].x + text_width(calls[i].text, calls[i].font) > calls[j].x

----------------------------------------------------------------------------
(* C3 *)

\* C3: in the final version no drawn description line intersects the pasted
\* illustration icon (stated here for the documented 240 x 200 module and for
\* description lines that stay within MAX_DESC_WIDTH).
C3_DescNeverReachesIcon ==
    (/\ FinalDone
     /\ args.width = 240 /\ args.height = 200
     /\ \A i \in At("desc") :
           text_width(calls[i].text, calls[i].font) <= MAX_DESC_WIDTH) =>
        \A i \in At("desc") : \A j \in At("wind_icon") :
            ~TextHitsIcon(calls[i], calls[j])

----------------------------------------------------------------------------
(* C4 *)

\* C4: wrap2_ellips returns at least one and at most max_lines lines, and the
\* final version's render draws at most MAX_DESC_LINES description lines.
C4_AtMostMaxLines ==
    /\ WrapDone => (Len(wresult) >= 1 /\ Len(wresult) <= wreq.max_lines)
    /\ FinalDone => Cardinality(At("desc")) <= MAX_DESC_LINES

\* three words that need three lines, packed into two
C4_Witness ==
    /\ WrapDone
    /\ wreq.max_lines = 2
    /\ Len(Split(wreq.text)) >= 3
    /\ ~FitsOnTwoLines(Split(wreq.text), wreq.font, wreq.max_w)
    /\ Len(wresult) = 2

----------------------------------------------------------------------------
(* C5 *)

\* C5: every line wrap2_ellips returns for a non-empty text is at most max_w
\* wide, and every description line the final version draws at most
\* MAX_DESC_WIDTH.
C5_LinesWithinMaxWidth ==
    /\ (WrapDone /\ wreq.max_lines = 2 /\ Split(wreq.text) # <<>>) =>
          \A k \in 1..Len(wresult) : text_width(wresult[k], wreq.font) <= wreq.max_w
    /\ FinalDone =>
          \A i \in At("desc") :
              text_width(calls[i].text, calls[i].font) <= MAX_DESC_WIDTH

----------------------------------------------------------------------------
(* C6 *)

\* C6: when the words fit in order on two lines, wrap2_ellips returns lines that
\* hold every word unshortened and none of them ends with the ellipsis.
C6_WrapInsteadOfEllipsis ==
    (/\ WrapDone
     /\ wreq.max_lines = 2
     /\ Split(wreq.text) # <<>>
     /\ FitsOnTwoLines(Split(wreq.text), wreq.font, wreq.max_w)) =>
        /\ Split(Join(wresult)) = Split(wreq.text)
        /\ \A k \in 1..Len(wresult) : ~EndsWithEllipsis(wresult[k])

----------------------------------------------------------------------------
(* C7 *)

\* C7 as stated: when weather_data lacks wind_speed or wind_direction, render
\* draws the fallback placeholder and not the wind values.
C7_FallbackWhenFieldMissing ==
    (RenderDone /\ MissingWindField) =>
        /\ Ops("render_fallback_content") # {}
        /\ At("ms") = {} /\ At("desc") = {} /\ At("label") = {}

ZeroMs == <<"0", ".", "0", " ", "m", "/", "s">>

\* C7 as amended: when weather_data lacks wind_speed or wind_direction and nothing
\* raises, render takes the default 0.0 for the missing field and draws as usual:
\* it returns True without the fallback, draws the m/s text ("0.0 m/s" when the
\* speed is missing), the description and the direction label.
C7_MissingFieldDefaultsToZero ==
    (RenderDone /\ MissingWindField /\ env.failAt = 0) =>
        /\ ret = TRUE
        /\ Ops("render_fallback_content") = {}
        /\ Cardinality(At("ms")) = 1
        /\ At("desc") # {}
        /\ Cardinality(At("label")) = 1
        /\ "wind_speed" \notin DOMAIN args.weather_data =>
              \A i \in At("ms") : calls[i].text = ZeroMs

\* a render of empty weather data that drew "0.0 m/s"
C7_Witness ==
    /\ RenderDone
    /\ args.weather_data = <<>>
    /\ env.failAt = 0
    /\ \E i \in At("ms") : calls[i].text = ZeroMs
    /\ ret = TRUE

----------------------------------------------------------------------------
(* C8 *)

FrameOf(a) == Rectangle("frame", a.x + 2, a.y + 2, a.x + a.width - 2, a.y + a.height - 2)

\* C8 as stated: in every version a render that does not raise draws the frame
\* rectangle with corners (x+2, y+2) and (x+width-2, y+height-2).
C8_EveryVersionDrawsFrame ==
    (RenderDone /\ env.failAt = 0) =>
        \E i \in Ops("draw.rectangle") : calls[i] = FrameOf(args)

\* C8 as amended: a render that does not raise draws the frame rectangle, once and
\* first, in the text_bounds_fix and clean_final versions; the two layout_fix
\* versions draw no rectangle, only texts and icons.
C8_FrameOnlyInLaterVersions ==
    (RenderDone /\ env.failAt = 0) =>
        /\ version \in {"text_bounds_fix", "clean_final"} =>
              /\ Ops("draw.rectangle") = {1}
              /\ calls[1] = FrameOf(args)
        /\ version \in {"layout_fix_0815", "layout_fix_0817"} =>
              /\ Ops("draw.rectangle") = {}
              /\ At("ms") # {}

\* a complete render of the final version: the frame, then six more draws
C8_Witness ==
    /\ RenderDone
    /\ env.failAt = 0
    /\ version = "clean_final"
    /\ calls[1] = FrameOf(args)
    /\ Len(calls) = 7

----------------------------------------------------------------------------
(* C10 *)

\* C10: in the final version a pasted cardinal arrow is the icon get_wind_icon
\* returned for the cardinal code or for its upper-case or lower-case variant.
C10_ArrowMatchesCardinalCode ==
    FinalDone =>
        \A i \in At("cardinal_icon") :
            calls[i].icon.code \in
                {env.dirInfo[2], Upper(env.dirInfo[2]), Lower(env.dirInfo[2])}

====
